---- MODULE Spec2Model ----
(***************************************************************************)
(* Automation Impact Analyser: the tabular analysis functions of           *)
(* src/server.js (inferDataTypes, calculateNumericStats, analyzeCSV,       *)
(* analyzeExcel), the /upload route with its upload storage and cleanup,   *)
(* and the upload page of src/script.js.                                   *)
(*                                                                         *)
(* Four specifications share the module:                                   *)
(*   SpecPure     inferDataTypes and calculateNumericStats on tables       *)
(*   SpecAnalyze  analyzeCSV (row events, end, error) and analyzeExcel     *)
(*   SpecServer   concurrent /upload requests, the uploads directory,      *)
(*                the cleanup timers                                       *)
(*   SpecClient   the submit handler of the upload page                    *)
(***************************************************************************)
EXTENDS Integers, Sequences, FiniteSets, TLC

VARIABLES
    \* SpecPure
    data,          \* the rows handed to the two helper functions
    pureOut,       \* what has been computed from them
    \* SpecAnalyze
    kind,          \* "csv" | "excel" | "none"
    results,       \* analyzeCSV / analyzeExcel: the local array `results`
    phase,         \* "start" | "streaming" | "resolved" | "rejected"
    analysis,      \* the value the analyser resolved / returned
    \* SpecServer
    now,           \* Date.now()
    pc,            \* per request: where its handling stands
    reqName,       \* per request: file.originalname
    reqBytes,      \* per request: the uploaded bytes
    filePath,      \* per request: req.file.path
    fdLive,        \* per request: its write stream still reaches the path
    disk,          \* the uploads directory: path -> bytes, or NoFile
    readBytes,     \* per request: the bytes its analysis read
    loaderFailed,  \* per request: its loader failed
    responses,     \* per request: the responses sent, in order
    timers,        \* pending cleanup timers: request -> due time, or NoTimer
    crashed,       \* the process died of an uncaught exception
    earlyDelete,   \* per request: its stored file was unlinked before it was read
    \* SpecClient
    chosen,        \* fileInput.files[0]: "none" | "csv" | "xlsx" | "xls" | "txt"
    loadingHidden, \* loading.classList contains 'hidden'
    resultHidden,  \* result.classList contains 'hidden'
    errorHidden,   \* error.classList contains 'hidden'
    btnDisabled,   \* analyzeBtn.disabled
    inFlight,      \* a fetch of /upload is pending
    resultContent, \* resultContent.innerHTML: "" or what displayResults wrote
    errorContent,  \* errorContent.innerHTML: "" or the message showError wrote
    finished       \* number of submissions that ran to their end

pureVars    == <<data, pureOut>>
analyzeVars == <<kind, results, phase, analysis>>
serverVars  == <<now, pc, reqName, reqBytes, filePath, fdLive, disk,
                 readBytes, loaderFailed, responses, timers, crashed, earlyDelete>>
clientVars  == <<chosen, loadingHidden, resultHidden, errorHidden, btnDisabled,
                 inFlight, resultContent, errorContent, finished>>
vars == <<pureVars, analyzeVars, serverVars, clientVars>>

(***************************************************************************)
(* Bounds                                                                  *)
(***************************************************************************)
MaxData == 5       \* rows of a table handed to the helper functions
MaxRows == 6       \* rows a CSV stream delivers
MaxSheetRows == 6  \* rows of a worksheet
NumRequests == 2   \* concurrent /upload requests
MaxSmallTicks == 1 \* one-millisecond steps of the clock between two long waits
MaxJumps == 1      \* waits of the length of the cleanup delay
MaxSubmits == 3    \* form submissions that run to their end

(***************************************************************************)
(* JavaScript numbers.  A number is NaN, +Infinity, -Infinity or a finite  *)
(* value kept as a reduced fraction num/den (rounding of doubles is not    *)
(* modelled: the inputs are small integers, and only the mean divides).    *)
(***************************************************************************)
RECURSIVE Gcd(_, _)
Gcd(a, b) == IF b = 0 THEN a ELSE Gcd(b, a % b)

Abs(n) == IF n < 0 THEN -n ELSE n

NaN  == [k |-> "nan",  num |-> 0, den |-> 1]
PInf == [k |-> "pinf", num |-> 0, den |-> 1]
NInf == [k |-> "ninf", num |-> 0, den |-> 1]
Rat(n, d) ==
    LET g == Gcd(Abs(n), d)
    IN  [k |-> "fin", num |-> n \div g, den |-> d \div g]
Fin(n) == [k |-> "fin", num |-> n, den |-> 1]

IsNaN(x) == x.k = "nan"
IsFiniteNum(x) == x.k = "fin"

\* x + y
Add(x, y) ==
    IF IsNaN(x) \/ IsNaN(y) THEN NaN
    ELSE IF x.k = "fin" /\ y.k = "fin"
         THEN Rat(x.num * y.den + y.num * x.den, x.den * y.den)
    ELSE IF x.k = "fin" THEN y
    ELSE IF y.k = "fin" THEN x
    ELSE IF x.k = y.k THEN x
    ELSE NaN

Neg(x) ==
    CASE x.k = "fin"  -> Rat(-x.num, x.den)
      [] x.k = "pinf" -> NInf
      [] x.k = "ninf" -> PInf
      [] OTHER        -> NaN

\* x - y
Sub(x, y) == Add(x, Neg(y))

\* x / n for a positive integer n
DivInt(x, n) == IF x.k = "fin" THEN Rat(x.num, x.den * n) ELSE x

\* x < y (false when either is NaN)
Less(x, y) ==
    IF IsNaN(x) \/ IsNaN(y) THEN FALSE
    ELSE IF x.k = "fin" /\ y.k = "fin" THEN x.num * y.den < y.num * x.den
    ELSE IF x.k = "ninf" THEN y.k # "ninf"
    ELSE IF x.k = "pinf" THEN FALSE
    ELSE y.k = "pinf"

\* x > 0
Positive(x) == Less(Fin(0), x)

(***************************************************************************)
(* Strings are sequences of one-character strings, so that parsing is      *)
(* computed and not tabulated.                                             *)
(***************************************************************************)
Digits == {"0", "1", "2", "3", "4", "5", "6", "7", "8", "9"}
DigitVal(c) ==
    CASE c = "0" -> 0 [] c = "1" -> 1 [] c = "2" -> 2 [] c = "3" -> 3
      [] c = "4" -> 4 [] c = "5" -> 5 [] c = "6" -> 6 [] c = "7" -> 7
      [] c = "8" -> 8 [] c = "9" -> 9

Upper == <<"A","B","C","D","E","F","G","H","I","J","K","L","M",
           "N","O","P","Q","R","S","T","U","V","W","X","Y","Z">>
Lower == <<"a","b","c","d","e","f","g","h","i","j","k","l","m",
           "n","o","p","q","r","s","t","u","v","w","x","y","z">>

LowerChar(c) ==
    IF \E i \in 1..Len(Upper) : Upper[i] = c
    THEN Lower[CHOOSE i \in 1..Len(Upper) : Upper[i] = c]
    ELSE c

\* String.prototype.toLowerCase
ToLowerCase(s) == [i \in 1..Len(s) |-> LowerChar(s[i])]

RECURSIVE TrimLeft(_)
TrimLeft(s) == IF s # <<>> /\ s[1] = " " THEN TrimLeft(Tail(s)) ELSE s

RECURSIVE TrimRight(_)
TrimRight(s) ==
    IF s # <<>> /\ s[Len(s)] = " " THEN TrimRight(SubSeq(s, 1, Len(s) - 1)) ELSE s

\* the longest prefix of s made of digits
RECURSIVE DigitPrefix(_)
DigitPrefix(s) ==
    IF s # <<>> /\ s[1] \in Digits THEN <<s[1]>> \o DigitPrefix(Tail(s)) ELSE <<>>

RECURSIVE DigitsValue(_)
DigitsValue(ds) ==
    IF ds = <<>> THEN 0
    ELSE 10 * DigitsValue(SubSeq(ds, 1, Len(ds) - 1)) + DigitVal(ds[Len(ds)])

InfinityWord == <<"I","n","f","i","n","i","t","y">>
StartsWith(s, p) == Len(s) >= Len(p) /\ SubSeq(s, 1, Len(p)) = p

\* an unsigned StrDecimalLiteral at the head of s ("Infinity" or digits; the
\* fraction and exponent parts are outside the alphabet of the inputs)
UnsignedPrefix(s) ==
    IF StartsWith(s, InfinityWord) THEN [v |-> PInf, len |-> Len(InfinityWord)]
    ELSE IF DigitPrefix(s) # <<>>
         THEN [v |-> Fin(DigitsValue(DigitPrefix(s))), len |-> Len(DigitPrefix(s))]
    ELSE [v |-> NaN, len |-> 0]

\* a signed literal at the head of s: its value and the characters it takes
SignedPrefix(s) ==
    IF s # <<>> /\ s[1] \in {"+", "-"}
    THEN LET u == UnsignedPrefix(Tail(s))
         IN  IF IsNaN(u.v) THEN u
             ELSE [v |-> IF s[1] = "-" THEN Neg(u.v) ELSE u.v, len |-> u.len + 1]
    ELSE UnsignedPrefix(s)

\* parseFloat of a string: leading white space is skipped, the longest prefix
\* that is a literal is read, trailing characters are ignored
ParseFloatStr(s) == SignedPrefix(TrimLeft(s)).v

\* Number(string): the whole trimmed string must be a literal; "" is 0
ToNumberStr(s) ==
    LET t == TrimRight(TrimLeft(s))
        p == SignedPrefix(t)
    IN  IF t = <<>> THEN Fin(0)
        ELSE IF ~IsNaN(p.v) /\ p.len = Len(t) THEN p.v
        ELSE NaN

(***************************************************************************)
(* Cell values: undefined, a string, a number or a boolean.                *)
(***************************************************************************)
Undefined == [t |-> "undefined", s |-> <<>>, n |-> NaN,    b |-> FALSE]
Str(s)    == [t |-> "string",    s |-> s,    n |-> NaN,    b |-> FALSE]
Num(n)    == [t |-> "number",    s |-> <<>>, n |-> Fin(n), b |-> FALSE]
Bool(b)   == [t |-> "boolean",   s |-> <<>>, n |-> NaN,    b |-> b]

\* parseFloat(v): v is converted to a string first
ParseFloat(v) ==
    CASE v.t = "string" -> ParseFloatStr(v.s)
      [] v.t = "number" -> v.n
      [] OTHER          -> NaN        \* "undefined", "true", "false"

\* Number(v)
ToNumber(v) ==
    CASE v.t = "string"  -> ToNumberStr(v.s)
      [] v.t = "number"  -> v.n
      [] v.t = "boolean" -> IF v.b THEN Fin(1) ELSE Fin(0)
      [] OTHER           -> NaN

\* the global isFinite(v)
IsFiniteJS(v) == IsFiniteNum(ToNumber(v))

\* Date.parse(v) is not NaN.  Modelled for the forms the inputs hold: an ISO
\* date YYYY-MM-DD with a month 01..12 and a day 01..31, and a bare numeral
\* (read as a year or month by the engine's fallback parser).
IsIsoDate(s) ==
    /\ Len(s) = 10
    /\ \A i \in {1, 2, 3, 4, 6, 7, 9, 10} : s[i] \in Digits
    /\ s[5] = "-" /\ s[8] = "-"
    /\ DigitsValue(SubSeq(s, 6, 7)) \in 1..12
    /\ DigitsValue(SubSeq(s, 9, 10)) \in 1..31

DateParses(v) ==
    CASE v.t = "string" ->
            \/ IsIsoDate(v.s)
            \/ (v.s # <<>> /\ DigitPrefix(v.s) = v.s)
      [] v.t = "number" -> TRUE
      [] OTHER -> FALSE

(***************************************************************************)
(* Rows: objects with ordered keys.                                        *)
(***************************************************************************)
Range(s) == {s[i] : i \in 1..Len(s)}

\* Object.keys(row)
ObjectKeys(row) == row.keys

\* row[column]
Get(row, column) ==
    IF column \in Range(row.keys) THEN row.val[column] ELSE Undefined

(***************************************************************************)
(* inferDataTypes (server.js 105-122)                                      *)
(***************************************************************************)
TrueWord  == <<"t","r","u","e">>
FalseWord == <<"f","a","l","s","e">>

\* data[0]?.[column]
SampleValue(d, column) == IF d = <<>> THEN Undefined ELSE Get(d[1], column)

\* InferType with the date test moved in front of the number test
InferTypeDateFirst(sampleValue) ==
    IF sampleValue.t = "undefined" THEN "unknown"
    ELSE IF DateParses(sampleValue) THEN "date"
    ELSE IF ~IsNaN(ParseFloat(sampleValue)) /\ IsFiniteJS(sampleValue) THEN "number"
    ELSE IF \/ sampleValue.t = "boolean"
            \/ ToLowerCase(sampleValue.s) = TrueWord
            \/ ToLowerCase(sampleValue.s) = FalseWord
         THEN "boolean"
    ELSE "string"

\* the if / else-if chain on one sample value
InferType(sampleValue) ==
    IF sampleValue.t = "undefined" THEN "unknown"
    ELSE IF ~IsNaN(ParseFloat(sampleValue)) /\ IsFiniteJS(sampleValue) THEN "number"
    ELSE IF \/ sampleValue.t = "boolean"
            \/ ToLowerCase(sampleValue.s) = TrueWord
            \/ ToLowerCase(sampleValue.s) = FalseWord
         THEN "boolean"
    ELSE IF DateParses(sampleValue) THEN "date"
    ELSE "string"

inferDataTypes(d, columns) ==
    [column \in Range(columns) |-> InferType(SampleValue(d, column))]

(***************************************************************************)
(* calculateNumericStats (server.js 125-149)                               *)
(***************************************************************************)
\* data.map(row => parseFloat(row[column])).filter(val => !isNaN(val))
NumericValues(d, column) ==
    SelectSeq([i \in 1..Len(d) |-> ParseFloat(Get(d[i], column))],
              LAMBDA val : ~IsNaN(val))

\* values.reduce((a, b) => a + b, 0)
RECURSIVE ReduceSum(_, _)
ReduceSum(values, acc) ==
    IF values = <<>> THEN acc ELSE ReduceSum(Tail(values), Add(acc, values[1]))

\* Math.min(...values): starts at +Infinity, a NaN argument gives NaN
RECURSIVE MathMin(_, _)
MathMin(values, acc) ==
    IF values = <<>> THEN acc
    ELSE IF IsNaN(values[1]) \/ IsNaN(acc) THEN NaN
    ELSE MathMin(Tail(values), IF Less(values[1], acc) THEN values[1] ELSE acc)

\* Math.max(...values): starts at -Infinity
RECURSIVE MathMax(_, _)
MathMax(values, acc) ==
    IF values = <<>> THEN acc
    ELSE IF IsNaN(values[1]) \/ IsNaN(acc) THEN NaN
    ELSE MathMax(Tail(values), IF Less(acc, values[1]) THEN values[1] ELSE acc)

\* the comparator (a, b) => a - b says a goes after b when a - b > 0
\* (a NaN difference, Infinity - Infinity, counts as 0)
After(a, b) == Positive(Sub(a, b))

\* x put into an ascending sequence, behind its equals (the sort is stable)
RECURSIVE InsertSorted(_, _)
InsertSorted(x, sorted) ==
    IF sorted = <<>> THEN <<x>>
    ELSE IF After(sorted[1], x) THEN <<x>> \o sorted
    ELSE <<sorted[1]>> \o InsertSorted(x, Tail(sorted))

\* [...values].sort((a, b) => a - b)
RECURSIVE SortAscending(_)
SortAscending(values) ==
    IF values = <<>> THEN <<>>
    ELSE InsertSorted(values[Len(values)],
                      SortAscending(SubSeq(values, 1, Len(values) - 1)))

\* Math.floor(sorted.length / 2), Math.floor(sorted.length * 0.25) and
\* Math.floor(sorted.length * 0.75); 0.25 and 0.75 are exact doubles
\* the lower of the two middle elements for an even count
MedianIndexLower(len) == (len - 1) \div 2

MedianIndex(len) == len \div 2
Q1Index(len) == len \div 4
Q3Index(len) == (3 * len) \div 4

\* sorted[i] with a zero-based index i
At(seq, i) == seq[i + 1]

\* values.reduce(...) / values.length
Mean(values) == DivInt(ReduceSum(values, Fin(0)), Len(values))

\* the record built for one column with values.length > 0
ColumnStats(values) ==
    LET sorted == SortAscending(values)
    IN  [count  |-> Len(values),
         mean   |-> Mean(values),
         min    |-> MathMin(values, PInf),
         max    |-> MathMax(values, NInf),
         sum    |-> ReduceSum(values, Fin(0)),
         median |-> At(sorted, MedianIndex(Len(sorted))),
         q1     |-> At(sorted, Q1Index(Len(sorted))),
         q3     |-> At(sorted, Q3Index(Len(sorted)))]

\* values.length > 0
HasStats(values) == Len(values) > 0

calculateNumericStats(d, columns) ==
    [column \in {c \in Range(columns) : HasStats(NumericValues(d, c))} |->
        ColumnStats(NumericValues(d, column))]

(***************************************************************************)
(* Tables for the helper functions.  A header a,b,c,d; five rows holding   *)
(* the kinds of cell the two functions tell apart.  The short row has no   *)
(* b, c, d (a line with one field, or blank cells of a sheet).             *)
(***************************************************************************)
Header == <<"a", "b", "c", "d">>

MkRow(keys, vals) ==
    [keys |-> keys,
     val  |-> [c \in Range(keys) |-> vals[CHOOSE i \in 1..Len(keys) : keys[i] = c]]]

PureRows ==
    { MkRow(Header, <<Str(<<"1">>), Str(<<"h","e","l","l","o">>), Bool(TRUE),
                      Str(<<"0">>)>>),
      MkRow(Header, <<Str(<<"2">>), Str(InfinityWord), Num(7), Str(<<>>)>>),
      MkRow(Header, <<Str(<<"3">>), Str(<<"T","R","U","E">>), Str(<<"-","3">>),
                      Str(<<"1","2","a","b","c">>)>>),
      MkRow(Header, <<Str(<<"4">>),
                      Str(<<"2","0","2","4","-","0","1","-","0","1">>),
                      Str(<<" ","4","2">>), Str(FalseWord)>>),
      MkRow(<<"a">>, <<Str(<<"5">>)>>) }

SeqsUpTo(S, n) == UNION {[1..k -> S] : k \in 0..n}

NoOutput == [typed |-> FALSE, computed |-> FALSE, dataTypes |-> <<>>, numericStats |-> <<>>]

InitPureVars ==
    /\ data \in SeqsUpTo(PureRows, MaxData)
    /\ pureOut = NoOutput

CallInferDataTypes ==
    /\ ~pureOut.typed
    /\ pureOut' = [pureOut EXCEPT !.typed = TRUE,
                                  !.dataTypes = inferDataTypes(data, Header)]
    /\ UNCHANGED <<data, analyzeVars, serverVars, clientVars>>

CallCalculateNumericStats ==
    /\ ~pureOut.computed
    /\ pureOut' = [pureOut EXCEPT !.computed = TRUE,
                                  !.numericStats = calculateNumericStats(data, Header)]
    /\ UNCHANGED <<data, analyzeVars, serverVars, clientVars>>

NextPure == CallInferDataTypes \/ CallCalculateNumericStats

(***************************************************************************)
(* Claims about the helper functions (SpecPure)                            *)
(***************************************************************************)
\* the value of row i of the table for column c
Cell(i, c) == Get(data[i], c)

\* C1: for every table with at least one row and every column c of the
\* column list, numericStats has a key c if and only if some row's value for
\* c parses as a finite number; the keys are a subset of the column list.
\* ("Parses" is read as parseFloat reads, so that a numeric prefix counts.)
C1_StatsKeyIffFiniteValue ==
    (pureOut.computed /\ data # <<>>) =>
        /\ DOMAIN pureOut.numericStats \subseteq Range(Header)
        /\ \A c \in Range(Header) :
              (c \in DOMAIN pureOut.numericStats)
                <=> (\E i \in 1..Len(data) : IsFiniteNum(ParseFloat(Cell(i, c))))

\* the rules of the type decision, stated on the value itself
NumericLiteral(s) ==
    LET t == TrimRight(TrimLeft(s))
        body == IF t # <<>> /\ t[1] \in {"+", "-"} THEN Tail(t) ELSE t
    IN  body # <<>> /\ \A i \in 1..Len(body) : body[i] \in Digits

RuleUnknown(v) == v.t = "undefined"
RuleNumber(v)  == \/ v.t = "number" /\ IsFiniteNum(v.n)
                  \/ v.t = "string" /\ NumericLiteral(v.s)
RuleBoolean(v) == \/ v.t = "boolean"
                  \/ v.t = "string" /\ ToLowerCase(v.s) \in {TrueWord, FalseWord}
RuleDate(v)    == DateParses(v)

FirstMatch(v) ==
    CASE RuleUnknown(v) -> "unknown"
      [] ~RuleUnknown(v) /\ RuleNumber(v) -> "number"
      [] ~RuleUnknown(v) /\ ~RuleNumber(v) /\ RuleBoolean(v) -> "boolean"
      [] ~RuleUnknown(v) /\ ~RuleNumber(v) /\ ~RuleBoolean(v) /\ RuleDate(v) -> "date"
      [] OTHER -> "string"

\* C2: every column gets the type of the first row's value alone, by the
\* first rule that matches in the order unknown, number, boolean, date,
\* string; a table with no rows gives unknown; "0" is number.
C2_TypeFromFirstRowInOrder ==
    pureOut.typed =>
        /\ DOMAIN pureOut.dataTypes = Range(Header)
        /\ \A c \in Range(Header) :
              pureOut.dataTypes[c] =
                  FirstMatch(IF data = <<>> THEN Undefined ELSE Cell(1, c))
        /\ \A c \in Range(Header) :
              (data # <<>> /\ Cell(1, c) = Str(<<"0">>)) => pureOut.dataTypes[c] = "number"

\* C2 witness: the first row holds d = "0" and c = true, the second is the
\* short row without c and d; d is number and c is boolean all the same
C2_Witness ==
    /\ pureOut.typed
    /\ Len(data) >= 2
    /\ Cell(1, "d") = Str(<<"0">>)
    /\ Cell(2, "d") = Undefined
    /\ pureOut.dataTypes["d"] = "number"
    /\ pureOut.dataTypes["c"] = "boolean"

\* the values of column c that parse as numbers, in row order
RECURSIVE Subset(_, _)
Subset(c, n) ==
    IF n = 0 THEN <<>>
    ELSE LET x == ParseFloat(Cell(n, c))
         IN  IF IsNaN(x) THEN Subset(c, n - 1) ELSE Append(Subset(c, n - 1), x)

RECURSIVE SumOf(_)
SumOf(S) == IF S = <<>> THEN Fin(0) ELSE Add(S[Len(S)], SumOf(SubSeq(S, 1, Len(S) - 1)))

\* the element at zero-based position k of S in ascending order
KthSmallest(S, k) ==
    CHOOSE x \in Range(S) :
        /\ Cardinality({i \in 1..Len(S) : Less(S[i], x)}) <= k
        /\ k < Cardinality({i \in 1..Len(S) : ~Less(x, S[i])})

\* floor(n * p / q)
FloorOf(n, p, q) == CHOOSE k \in 0..(n * p) : q * k <= n * p /\ n * p < q * (k + 1)

\* m is sum / count
IsQuotient(m, sum, count) ==
    IF sum.k = "fin"
    THEN m.k = "fin" /\ m.den > 0 /\ m.num * sum.den * count = sum.num * m.den
    ELSE m = sum

StatsAgree(st, S) ==
    /\ st.count = Len(S)
    /\ st.sum = SumOf(S)
    /\ IsQuotient(st.mean, st.sum, st.count)
    /\ st.min \in Range(S) /\ \A i \in 1..Len(S) : ~Less(S[i], st.min)
    /\ st.max \in Range(S) /\ \A i \in 1..Len(S) : ~Less(st.max, S[i])
    /\ st.median = KthSmallest(S, FloorOf(Len(S), 1, 2))
    /\ st.q1 = KthSmallest(S, FloorOf(Len(S), 1, 4))
    /\ st.q3 = KthSmallest(S, FloorOf(Len(S), 3, 4))

OneToFive == {Fin(1), Fin(2), Fin(3), Fin(4), Fin(5)}

\* C3: for a column with a non-empty numeric subset S, count = |S|, sum = the
\* sum of S, mean = sum / count, min and max the least and greatest element,
\* median, q1 and q3 the elements of ascending S at floor(count/2),
\* floor(count*0.25), floor(count*0.75); for S = 1..5: mean 3, sum 15, min 1,
\* max 5, median 3, q1 2, q3 4.
C3_StatsFormulas ==
    pureOut.computed =>
        \A c \in DOMAIN pureOut.numericStats :
            LET S  == Subset(c, Len(data))
                st == pureOut.numericStats[c]
            IN  /\ S # <<>>
                /\ StatsAgree(st, S)
                /\ (Len(S) = 5 /\ Range(S) = OneToFive) =>
                      st = [count |-> 5, mean |-> Fin(3), min |-> Fin(1),
                            max |-> Fin(5), sum |-> Fin(15), median |-> Fin(3),
                            q1 |-> Fin(2), q3 |-> Fin(4)]

\* C3 witness: column a holds 4, 2, 5, 1, 3 in that row order
C3_Witness ==
    /\ pureOut.computed
    /\ Len(data) = 5
    /\ Subset("a", 5) = <<Fin(4), Fin(2), Fin(5), Fin(1), Fin(3)>>
    /\ pureOut.numericStats["a"].median = Fin(3)

(***************************************************************************)
(* analyzeCSV (server.js 47-73) and analyzeExcel (server.js 76-102)        *)
(***************************************************************************)
PreviewLimit == 5

Min(a, b) == IF a < b THEN a ELSE b

\* arr.slice(0, end)
SliceFromStart(arr, end) == SubSeq(arr, 1, Min(end, Len(arr)))

\* the whole array instead of its first rows
PreviewEverything(rs) == rs

\* results.slice(0, 5)
PreviewRows(rs) == SliceFromStart(rs, PreviewLimit)

\* the test also taking a single row for an empty table
EmptyTableOffByOne(rs) == Len(rs) <= 1

\* results.length === 0
EmptyTable(rs) == Len(rs) = 0

\* Object.keys(results[0])
ColumnNamesOf(rs) == ObjectKeys(rs[1])

\* the key count of the last row instead of the first
ColumnCountLastRow(rs, columnNames) == Len(ObjectKeys(rs[Len(rs)]))

\* columnNames.length
ColumnCount(rs, columnNames) == Len(columnNames)

\* { rows: 0, columns: 0, preview: [], columnNames: [] }
EmptyResult == [rows |-> 0, columns |-> 0, preview |-> <<>>, columnNames |-> <<>>]

\* the 'end' handler of analyzeCSV: the value the promise resolves with
analyzeCSV(rs) ==
    IF EmptyTable(rs) THEN EmptyResult
    ELSE LET columnNames  == ColumnNamesOf(rs)
             numericStats == calculateNumericStats(rs, columnNames)
         IN  [rows         |-> Len(rs),
              columns      |-> ColumnCount(rs, columnNames),
              columnNames  |-> columnNames,
              dataTypes    |-> inferDataTypes(rs, columnNames),
              numericStats |-> numericStats,
              preview      |-> PreviewRows(rs)]

\* analyzeExcel after sheet_to_json gave the rows rs
analyzeExcel(rs) ==
    IF EmptyTable(rs) THEN EmptyResult
    ELSE LET columnNames  == ColumnNamesOf(rs)
             numericStats == calculateNumericStats(rs, columnNames)
         IN  [rows         |-> Len(rs),
              columns      |-> ColumnCount(rs, columnNames),
              columnNames  |-> columnNames,
              dataTypes    |-> inferDataTypes(rs, columnNames),
              numericStats |-> numericStats,
              preview      |-> PreviewRows(rs)]

\* rows a CSV stream delivers (every value a string; a short line gives a
\* row without the missing columns)
CsvRows ==
    { MkRow(<<"a", "b">>, <<Str(<<"1">>), Str(<<"h","e","l","l","o">>)>>),
      MkRow(<<"a", "b">>, <<Str(<<"2">>), Str(<<"T","R","U","E">>)>>),
      MkRow(<<"a">>, <<Str(<<"5">>)>>) }

\* rows sheet_to_json delivers (typed values; a blank cell gives no key)
SheetRows ==
    { MkRow(<<"a", "b">>, <<Num(1), Bool(TRUE)>>),
      MkRow(<<"a", "b">>, <<Num(2), Str(<<"x">>)>>),
      MkRow(<<"b">>, <<Str(<<"h","e","l","l","o">>)>>) }

NoAnalysis == [rows |-> -1]

AnalyzeUnused == kind = "none" /\ results = <<>> /\ phase = "start" /\ analysis = NoAnalysis

InitAnalyzeVars == AnalyzeUnused

\* analyzeCSV is called: results = [], the stream is piped into the parser
StartCSV ==
    /\ phase = "start"
    /\ kind' = "csv"
    /\ phase' = "streaming"
    /\ UNCHANGED <<results, analysis, pureVars, serverVars, clientVars>>

\* .on('data', (data) => results.push(data))
CsvData ==
    /\ phase = "streaming"
    /\ Len(results) < MaxRows
    /\ \E row \in CsvRows : results' = Append(results, row)
    /\ UNCHANGED <<kind, phase, analysis, pureVars, serverVars, clientVars>>

\* .on('end', ...): the promise resolves
CsvEnd ==
    /\ phase = "streaming"
    /\ analysis' = analyzeCSV(results)
    /\ phase' = "resolved"
    /\ UNCHANGED <<kind, results, pureVars, serverVars, clientVars>>

\* .on('error', reject)
CsvError ==
    /\ phase = "streaming"
    /\ phase' = "rejected"
    /\ UNCHANGED <<kind, results, analysis, pureVars, serverVars, clientVars>>

\* analyzeExcel runs to its return on the rows of the first sheet
ExcelReturn ==
    /\ phase = "start"
    /\ \E sheet \in SeqsUpTo(SheetRows, MaxSheetRows) :
          /\ results' = sheet
          /\ analysis' = analyzeExcel(sheet)
    /\ kind' = "excel"
    /\ phase' = "resolved"
    /\ UNCHANGED <<pureVars, serverVars, clientVars>>

\* XLSX.readFile throws
ExcelThrow ==
    /\ phase = "start"
    /\ kind' = "excel"
    /\ phase' = "rejected"
    /\ UNCHANGED <<results, analysis, pureVars, serverVars, clientVars>>

NextAnalyze == StartCSV \/ CsvData \/ CsvEnd \/ CsvError \/ ExcelReturn \/ ExcelThrow

(***************************************************************************)
(* Claims about the analysers (SpecAnalyze)                                *)
(***************************************************************************)
TypeNames == {"number", "boolean", "date", "string", "unknown"}

Resolved == phase = "resolved"

C7_PreviewIsFirstRows ==
    Resolved =>
        /\ Len(analysis.preview) = Min(PreviewLimit, analysis.rows)
        /\ Len(analysis.preview) = Min(PreviewLimit, Len(results))
        /\ \A i \in 1..Len(analysis.preview) : analysis.preview[i] = results[i]

\* C7 witness: six rows were loaded, the sixth differs from the first five
C7_Witness ==
    /\ Resolved
    /\ Len(results) = 6
    /\ Len(analysis.preview) = 5
    /\ results[6] # results[5]

\* C7, second half: the step that computes types and statistics leaves the
\* loaded rows as they were
C7_RowsUntouched == [][(phase = "streaming" /\ phase' = "resolved") => results' = results]_vars

\* C8: rows = 0 and columns = 0 exactly when the loader gave no rows; then
\* the result has an empty columnNames and an empty preview; with at least
\* one row the row count is the number of loaded rows.
C8_ZeroIffNoRows ==
    Resolved =>
        /\ (analysis.rows = 0 /\ analysis.columns = 0) <=> (results = <<>>)
        /\ results = <<>> => (analysis.columnNames = <<>> /\ analysis.preview = <<>>)
        /\ results # <<>> => analysis.rows = Len(results)

\* C8 witness: a CSV stream ended without a row and the promise resolved
C8_Witness ==
    /\ Resolved /\ kind = "csv"
    /\ results = <<>>
    /\ analysis.rows = 0

(***************************************************************************)
(* The /upload route (server.js 17-44, 152-199, 209-216)                   *)
(*                                                                         *)
(* A request is received (the file filter and the filename callback run,   *)
(* the write stream is opened), its upload finishes, the route handler     *)
(* runs, and for a CSV file the read stream is opened later.  The handler  *)
(* and every callback run to their end without interleaving; between them  *)
(* the steps of other requests and the timers interleave freely.           *)
(***************************************************************************)
Requests == 1..NumRequests

CleanupDelay == 5000

AllowedTypes == {".csv", ".xlsx", ".xls"}

NoUpload == [stem |-> "", ext |-> ""]
UploadNames == { [stem |-> "d", ext |-> ".csv"],
                 [stem |-> "d", ext |-> ".xlsx"],
                 [stem |-> "n", ext |-> ".txt"] }

\* path.extname(file.originalname).toLowerCase()
ExtName(name) == name.ext

\* uploaded bytes: two tables, and bytes no loader can parse
Contents == {"t1", "t2", "bad"}
\* on disk also: a file that is still being written, and no file
Partial == "partial"
NoFile == "nofile"

Times == {j * CleanupDelay + i : j \in 0..MaxJumps, i \in 0..MaxSmallTicks}
Paths == [time : Times, name : {n \in UploadNames : ExtName(n) \in AllowedTypes}]
NoPath == [time |-> -1, name |-> NoUpload]

\* Date.now() + '-' + file.originalname, in the directory 'uploads'
UploadPath(time, name) == [time |-> time, name |-> name]

LoadFailure == [failed |-> TRUE, rows |-> <<>>]
Loaded(rs) == [failed |-> FALSE, rows |-> rs]

\* what the csv parser makes of the bytes: rows, or an 'error' event
CsvLoad(bytes) ==
    CASE bytes = "t1" ->
            Loaded(<<MkRow(<<"a", "b">>, <<Str(<<"1">>), Str(<<"h","e","l","l","o">>)>>)>>)
      [] bytes = "t2" ->
            Loaded(<<MkRow(<<"a", "b">>, <<Str(<<"2">>), Str(<<"T","R","U","E">>)>>),
                     MkRow(<<"a">>, <<Str(<<"5">>)>>)>>)
      [] bytes = Partial -> Loaded(<<>>)
      [] OTHER -> LoadFailure

\* what XLSX.readFile and sheet_to_json make of the bytes: rows, or a throw
SheetLoad(bytes) ==
    CASE bytes = "t1" -> Loaded(<<MkRow(<<"a", "b">>, <<Num(1), Bool(TRUE)>>)>>)
      [] bytes = "t2" -> Loaded(<<MkRow(<<"a", "b">>, <<Num(2), Str(<<"x">>)>>),
                                  MkRow(<<"b">>, <<Str(<<"h","e","l","l","o">>)>>)>>)
      [] OTHER -> LoadFailure

AnalysisFields == {"rows", "columns", "columnNames", "dataTypes", "numericStats", "preview"}

\* res.json({ message, filename, ...analysisResult })
SuccessResponse(name, result) ==
    [status |-> 200,
     body   |-> result @@ [message |-> "File analyzed successfully", filename |-> name]]

\* res.status(500).json({ error: 'Failed to analyze file', details: error.message })
AnalysisErrorResponse(message) ==
    [status |-> 500, body |-> [error |-> "Failed to analyze file", details |-> message]]

\* res.status(status).json({ error })
ErrorResponse(status, message) == [status |-> status, body |-> [error |-> message]]

NoTimer == -1

ServerUnused ==
    /\ now = 0
    /\ pc = [r \in Requests |-> "idle"]
    /\ reqName = [r \in Requests |-> NoUpload]
    /\ reqBytes = [r \in Requests |-> "bad"]
    /\ filePath = [r \in Requests |-> NoPath]
    /\ fdLive = [r \in Requests |-> FALSE]
    /\ disk = [p \in Paths |-> NoFile]
    /\ readBytes = [r \in Requests |-> NoFile]
    /\ loaderFailed = [r \in Requests |-> FALSE]
    /\ responses = [r \in Requests |-> <<>>]
    /\ timers = [r \in Requests |-> NoTimer]
    /\ crashed = FALSE
    /\ earlyDelete = [r \in Requests |-> FALSE]

InitServerVars == ServerUnused

\* the requests whose stored file at path p has not yet been read by them
Waiting(p) == {r \in Requests : filePath[r] = p /\ pc[r] \in {"uploading", "stored", "reading"}}

\* fs.unlinkSync(p) by request r: the name goes; a write stream still open
\* on it keeps writing to a file no path reaches
Unlinked(p) == [disk EXCEPT ![p] = NoFile]
FdAfterUnlink(p) == [r \in Requests |-> fdLive[r] /\ filePath[r] # p]
EarlyAfterUnlink(p, by) ==
    [r \in Requests |-> earlyDelete[r] \/ (r # by /\ r \in Waiting(p))]

\* the clock moves by a millisecond
Tick ==
    /\ ~crashed
    /\ (now % CleanupDelay) < MaxSmallTicks
    /\ now' = now + 1
    /\ UNCHANGED <<pc, reqName, reqBytes, filePath, fdLive, disk, readBytes,
                   loaderFailed, responses, timers, crashed, earlyDelete,
                   pureVars, analyzeVars, clientVars>>

\* the clock moves by the length of the cleanup delay
Wait ==
    /\ ~crashed
    /\ (now \div CleanupDelay) < MaxJumps
    /\ now' = now + CleanupDelay
    /\ UNCHANGED <<pc, reqName, reqBytes, filePath, fdLive, disk, readBytes,
                   loaderFailed, responses, timers, crashed, earlyDelete,
                   pureVars, analyzeVars, clientVars>>

\* a request without a file part: the handler answers 400 (154-156)
ReceiveNoFile(r) ==
    /\ ~crashed /\ pc[r] = "idle"
    /\ responses' = [responses EXCEPT ![r] = Append(@, ErrorResponse(400, "No file uploaded"))]
    /\ pc' = [pc EXCEPT ![r] = "done"]
    /\ UNCHANGED <<now, reqName, reqBytes, filePath, fdLive, disk, readBytes,
                   loaderFailed, timers, crashed, earlyDelete,
                   pureVars, analyzeVars, clientVars>>

\* a file the filter refuses: the error middleware answers 500 (32-40, 209-216)
ReceiveRejected(r) ==
    /\ ~crashed /\ pc[r] = "idle"
    /\ \E name \in UploadNames :
          /\ ExtName(name) \notin AllowedTypes
          /\ reqName' = [reqName EXCEPT ![r] = name]
    /\ responses' = [responses EXCEPT ![r] =
          Append(@, ErrorResponse(500, "Invalid file type. Please upload CSV or Excel files."))]
    /\ pc' = [pc EXCEPT ![r] = "done"]
    /\ UNCHANGED <<now, reqBytes, filePath, fdLive, disk, readBytes,
                   loaderFailed, timers, crashed, earlyDelete,
                   pureVars, analyzeVars, clientVars>>

\* a file the filter accepts: the filename callback names it by the clock
\* and the write stream creates it, or truncates what the path held (25-27)
BeginUpload(r) ==
    /\ ~crashed /\ pc[r] = "idle"
    /\ \E name \in UploadNames, bytes \in Contents :
          /\ ExtName(name) \in AllowedTypes
          /\ reqName' = [reqName EXCEPT ![r] = name]
          /\ reqBytes' = [reqBytes EXCEPT ![r] = bytes]
          /\ filePath' = [filePath EXCEPT ![r] = UploadPath(now, name)]
          /\ disk' = [disk EXCEPT ![UploadPath(now, name)] = Partial]
    /\ fdLive' = [fdLive EXCEPT ![r] = TRUE]
    /\ pc' = [pc EXCEPT ![r] = "uploading"]
    /\ UNCHANGED <<now, readBytes, loaderFailed, responses, timers, crashed,
                   earlyDelete, pureVars, analyzeVars, clientVars>>

\* the write stream finishes: the path now holds this request's bytes,
\* unless the name was unlinked while the stream was open
FinishUpload(r) ==
    /\ ~crashed /\ pc[r] = "uploading"
    /\ disk' = IF fdLive[r] THEN [disk EXCEPT ![filePath[r]] = reqBytes[r]] ELSE disk
    /\ fdLive' = [fdLive EXCEPT ![r] = FALSE]
    /\ pc' = [pc EXCEPT ![r] = "stored"]
    /\ UNCHANGED <<now, reqName, reqBytes, filePath, readBytes, loaderFailed,
                   responses, timers, crashed, earlyDelete,
                   pureVars, analyzeVars, clientVars>>

\* the catch branch (186-198): unlink the file if it is there, answer 500
CatchBranch(r, message) ==
    /\ disk' = IF disk[filePath[r]] # NoFile THEN Unlinked(filePath[r]) ELSE disk
    /\ fdLive' = IF disk[filePath[r]] # NoFile THEN FdAfterUnlink(filePath[r]) ELSE fdLive
    /\ earlyDelete' = IF disk[filePath[r]] # NoFile
                      THEN EarlyAfterUnlink(filePath[r], r) ELSE earlyDelete
    /\ responses' = [responses EXCEPT ![r] = Append(@, AnalysisErrorResponse(message))]
    /\ loaderFailed' = [loaderFailed EXCEPT ![r] = TRUE]
    /\ timers' = timers
    /\ pc' = [pc EXCEPT ![r] = "done"]

\* res.json(...) and setTimeout(..., 5000) (173-184)
SuccessBranch(r, result) ==
    /\ responses' = [responses EXCEPT ![r] = Append(@, SuccessResponse(reqName[r], result))]
    /\ timers' = [timers EXCEPT ![r] = now + CleanupDelay]
    /\ pc' = [pc EXCEPT ![r] = "done"]
    /\ UNCHANGED <<disk, fdLive, earlyDelete, loaderFailed>>

\* the route handler for a .csv file: analyzeCSV creates the read stream and
\* the handler waits for the promise (163-164)
HandleCsv(r) ==
    /\ ~crashed /\ pc[r] = "stored"
    /\ ExtName(reqName[r]) = ".csv"
    /\ pc' = [pc EXCEPT ![r] = "reading"]
    /\ UNCHANGED <<now, reqName, reqBytes, filePath, fdLive, disk, readBytes,
                   loaderFailed, responses, timers, crashed, earlyDelete,
                   pureVars, analyzeVars, clientVars>>

\* the read stream finds no file: its 'error' event has no listener (the
\* listener of line 71 is on the parser the stream is piped into), the
\* exception is uncaught and the process ends
CsvStreamError(r) ==
    /\ ~crashed /\ pc[r] = "reading"
    /\ disk[filePath[r]] = NoFile
    /\ crashed' = TRUE
    /\ loaderFailed' = [loaderFailed EXCEPT ![r] = TRUE]
    /\ UNCHANGED <<now, pc, reqName, reqBytes, filePath, fdLive, disk, readBytes,
                   responses, timers, earlyDelete, pureVars, analyzeVars, clientVars>>

\* the read stream delivers the file to the parser; on 'end' the promise
\* resolves and the handler answers, on the parser's 'error' it rejects
CsvRead(r) ==
    /\ ~crashed /\ pc[r] = "reading"
    /\ disk[filePath[r]] # NoFile
    /\ readBytes' = [readBytes EXCEPT ![r] = disk[filePath[r]]]
    /\ IF CsvLoad(disk[filePath[r]]).failed
       THEN CatchBranch(r, "csv")
       ELSE SuccessBranch(r, analyzeCSV(CsvLoad(disk[filePath[r]]).rows))
    /\ UNCHANGED <<now, reqName, reqBytes, filePath, crashed,
                   pureVars, analyzeVars, clientVars>>

\* the route handler for a file that is not .csv: analyzeExcel reads the
\* file at once (165-166); any other extension is unlinked and refused
\* (167-171)
HandleOther(r) ==
    /\ ~crashed /\ pc[r] = "stored"
    /\ ExtName(reqName[r]) # ".csv"
    /\ readBytes' = [readBytes EXCEPT ![r] = disk[filePath[r]]]
    /\ IF ExtName(reqName[r]) \in {".xlsx", ".xls"}
       THEN IF disk[filePath[r]] = NoFile
            THEN CatchBranch(r, "ENOENT")
            ELSE IF SheetLoad(disk[filePath[r]]).failed
                 THEN CatchBranch(r, "xlsx")
                 ELSE SuccessBranch(r, analyzeExcel(SheetLoad(disk[filePath[r]]).rows))
       ELSE /\ disk' = Unlinked(filePath[r])
            /\ fdLive' = FdAfterUnlink(filePath[r])
            /\ earlyDelete' = EarlyAfterUnlink(filePath[r], r)
            /\ responses' = [responses EXCEPT ![r] =
                                Append(@, ErrorResponse(400, "Unsupported file format"))]
            /\ pc' = [pc EXCEPT ![r] = "done"]
            /\ UNCHANGED <<timers, loaderFailed>>
    /\ UNCHANGED <<now, reqName, reqBytes, filePath, crashed,
                   pureVars, analyzeVars, clientVars>>

\* the cleanup timer of request r fires (180-184)
TimerFires(r) ==
    /\ ~crashed
    /\ timers[r] # NoTimer /\ now >= timers[r]
    /\ timers' = [timers EXCEPT ![r] = NoTimer]
    /\ disk' = IF disk[filePath[r]] # NoFile THEN Unlinked(filePath[r]) ELSE disk
    /\ fdLive' = IF disk[filePath[r]] # NoFile THEN FdAfterUnlink(filePath[r]) ELSE fdLive
    /\ earlyDelete' = IF disk[filePath[r]] # NoFile
                      THEN EarlyAfterUnlink(filePath[r], r) ELSE earlyDelete
    /\ UNCHANGED <<now, pc, reqName, reqBytes, filePath, readBytes, loaderFailed,
                   responses, crashed, pureVars, analyzeVars, clientVars>>

NextServer ==
    \/ Tick
    \/ Wait
    \/ \E r \in Requests : ReceiveNoFile(r)
    \/ \E r \in Requests : ReceiveRejected(r)
    \/ \E r \in Requests : BeginUpload(r)
    \/ \E r \in Requests : FinishUpload(r)
    \/ \E r \in Requests : HandleCsv(r)
    \/ \E r \in Requests : CsvStreamError(r)
    \/ \E r \in Requests : CsvRead(r)
    \/ \E r \in Requests : HandleOther(r)
    \/ \E r \in Requests : TimerFires(r)

(***************************************************************************)
(* Claims about the /upload route (SpecServer)                             *)
(***************************************************************************)
\* the request is over: it was answered, or the process died under it
Ended(r) == pc[r] = "done" \/ (crashed /\ pc[r] # "idle")

\* a file was stored for the request
Stored(r) == filePath[r] # NoPath

\* the result of analysing the given bytes as a file of the given name
Analysed(name, bytes) ==
    IF ExtName(name) = ".csv"
    THEN analyzeCSV(CsvLoad(bytes).rows)
    ELSE analyzeExcel(SheetLoad(bytes).rows)

LoadFails(name, bytes) ==
    IF ExtName(name) = ".csv" THEN CsvLoad(bytes).failed ELSE SheetLoad(bytes).failed

\* C5 as stated: a request whose loader fails ends with exactly one error
\* response carrying an error message and a detail string and no analysis
\* field; a request that succeeds ends with exactly one success response
\* carrying the whole result; no request is answered twice.
C5_AsStated ==
    \A r \in Requests :
        /\ Len(responses[r]) <= 1
        /\ (Ended(r) /\ loaderFailed[r]) =>
              /\ Len(responses[r]) = 1
              /\ DOMAIN responses[r][1].body = {"error", "details"}
        /\ (Ended(r) /\ Stored(r) /\ ~loaderFailed[r] /\ ~crashed) =>
              /\ Len(responses[r]) = 1
              /\ responses[r][1] =
                    SuccessResponse(reqName[r], Analysed(reqName[r], readBytes[r]))

\* the response the request gets when it runs alone on its own bytes
AloneResponse(name, bytes) ==
    IF LoadFails(name, bytes)
    THEN AnalysisErrorResponse(IF ExtName(name) = ".csv" THEN "csv" ELSE "xlsx")
    ELSE SuccessResponse(name, Analysed(name, bytes))

\* C6 as stated: under every interleaving each answered request got the
\* response it would get running alone on its own bytes; it read its own
\* bytes, and no other request unlinked its file before it was read.
C6_AsStated ==
    \A r \in Requests :
        /\ ~earlyDelete[r]
        /\ (pc[r] = "done" /\ Stored(r)) =>
              /\ readBytes[r] = reqBytes[r]
              /\ responses[r] = <<AloneResponse(reqName[r], reqBytes[r])>>

\* nothing is left to run: every request that arrived is over and no timer
\* is pending, or the process is dead
Quiescent ==
    \/ crashed
    \/ \A r \in Requests : pc[r] \in {"idle", "done"} /\ timers[r] = NoTimer

\* C9 as stated: the stored file of every request is deleted in the end,
\* whichever way the request ends (when nothing is left to run, no stored
\* file is left), and it is never deleted before the request has read it.
C9_AsStated ==
    /\ \A r \in Requests : ~earlyDelete[r]
    /\ Quiescent => \A p \in Paths : disk[p] = NoFile

(***************************************************************************)
(* The upload page (script.js 12-173)                                      *)
(*                                                                         *)
(* The page starts with the three panels hidden and the button enabled     *)
(* (the script only ever removes 'hidden' to show a panel).  A disabled    *)
(* submit button keeps the form from being submitted.                      *)
(***************************************************************************)
FileChoices == {"none", "csv", "xlsx", "xls", "txt"}

\* the name of the chosen file ends with .csv, .xlsx or .xls (28-30)
AcceptedChoice(f) == f \in {"csv", "xlsx", "xls"}

ClientUnused ==
    /\ chosen = "none"
    /\ loadingHidden = TRUE
    /\ resultHidden = TRUE
    /\ errorHidden = TRUE
    /\ btnDisabled = FALSE
    /\ inFlight = FALSE
    /\ resultContent = ""
    /\ errorContent = ""
    /\ finished = 0

InitClientVars == ClientUnused

\* showError(message) (161-173)
ShowError(message) ==
    /\ errorContent' = message
    /\ errorHidden' = FALSE

\* displayResults(data) (72-159)
DisplayResults ==
    /\ resultContent' = "results"
    /\ resultHidden' = FALSE

\* the finally block (66-69)
Finally ==
    /\ loadingHidden' = TRUE
    /\ btnDisabled' = FALSE

\* the user picks a file, or clears the choice (13-15)
ChooseFile ==
    /\ \E f \in FileChoices : f # chosen /\ chosen' = f
    /\ UNCHANGED <<loadingHidden, resultHidden, errorHidden, btnDisabled, inFlight,
                   resultContent, errorContent, finished,
                   pureVars, analyzeVars, serverVars>>

\* submit with no file chosen (21-25)
SubmitNoFile ==
    /\ ~btnDisabled /\ finished < MaxSubmits
    /\ chosen = "none"
    /\ ShowError("Please select a file first")
    /\ finished' = finished + 1
    /\ UNCHANGED <<chosen, loadingHidden, resultHidden, btnDisabled, inFlight,
                   resultContent, pureVars, analyzeVars, serverVars>>

\* submit with a file of another extension (28-33)
SubmitWrongType ==
    /\ ~btnDisabled /\ finished < MaxSubmits
    /\ chosen # "none" /\ ~AcceptedChoice(chosen)
    /\ ShowError("Please upload a CSV or Excel file (.csv, .xlsx, .xls)")
    /\ finished' = finished + 1
    /\ UNCHANGED <<chosen, loadingHidden, resultHidden, btnDisabled, inFlight,
                   resultContent, pureVars, analyzeVars, serverVars>>

\* submit with an accepted file: show loading, hide the panels, disable the
\* button, start the fetch (36-50)
SubmitUpload ==
    /\ ~btnDisabled /\ finished < MaxSubmits
    /\ AcceptedChoice(chosen)
    /\ loadingHidden' = FALSE
    /\ resultHidden' = TRUE
    /\ errorHidden' = TRUE
    /\ btnDisabled' = TRUE
    /\ inFlight' = TRUE
    /\ UNCHANGED <<chosen, resultContent, errorContent, finished,
                   pureVars, analyzeVars, serverVars>>

\* the response is ok and its body parses: displayResults, then finally (59-61)
FetchSucceeds ==
    /\ inFlight
    /\ DisplayResults
    /\ Finally
    /\ inFlight' = FALSE
    /\ finished' = finished + 1
    /\ UNCHANGED <<chosen, errorHidden, errorContent, pureVars, analyzeVars, serverVars>>

\* fetch rejects, or the response is not ok: showError, then finally (54-57, 63-65)
FetchFails ==
    /\ inFlight
    /\ \E message \in {"Failed to fetch", "Failed to analyze file"} : ShowError(message)
    /\ Finally
    /\ inFlight' = FALSE
    /\ finished' = finished + 1
    /\ UNCHANGED <<chosen, resultHidden, resultContent, pureVars, analyzeVars, serverVars>>

NextClient ==
    \/ ChooseFile
    \/ SubmitNoFile
    \/ SubmitWrongType
    \/ SubmitUpload
    \/ FetchSucceeds
    \/ FetchFails

(***************************************************************************)
(* Claims about the upload page (SpecClient)                               *)
(***************************************************************************)
\* C10 as stated: once a submission has finished the result panel and the
\* error panel are never both visible, the loading indicator is hidden and
\* the button enabled; the button is disabled and the loading indicator
\* shown exactly while a request is in flight.
C10_AsStated ==
    /\ (finished > 0 /\ ~inFlight) =>
          /\ ~(~resultHidden /\ ~errorHidden)
          /\ loadingHidden
          /\ ~btnDisabled
    /\ btnDisabled <=> inFlight
    /\ ~loadingHidden <=> inFlight

(***************************************************************************)
(* The specifications                                                      *)
(***************************************************************************)
PureUnused == data = <<>> /\ pureOut = NoOutput

InitPure    == InitPureVars /\ AnalyzeUnused /\ ServerUnused /\ ClientUnused
InitAnalyze == PureUnused /\ InitAnalyzeVars /\ ServerUnused /\ ClientUnused
InitServer  == PureUnused /\ AnalyzeUnused /\ InitServerVars /\ ClientUnused
InitClient  == PureUnused /\ AnalyzeUnused /\ ServerUnused /\ InitClientVars

SpecPure    == InitPure /\ [][NextPure]_vars
SpecAnalyze == InitAnalyze /\ [][NextAnalyze]_vars
SpecServer  == InitServer /\ [][NextServer]_vars
SpecClient  == InitClient /\ [][NextClient]_vars

Init == InitServer
Next == NextServer
Spec == SpecServer

====
